---- MODULE Spec2Model ----
(***************************************************************************)
(* SentinelAI backend: the match pipeline (scrapping/pipeline.py), the     *)
(* internal-match writer (scrapping/internal_matching.py), the persistence *)
(* helpers (ip_service/services/database.py), the review endpoints         *)
(* (ip_service/routes/ip_routes.py, ip_service/routes/notification.py) and *)
(* dossier creation (ip_service/services/dmca_service.py).                 *)
(*                                                                         *)
(* Tables are sequences; a row's primary key is its index.  A handler is   *)
(* one action per database round trip that another request can observe:    *)
(* a pipeline run commits once per candidate, the review endpoint reads    *)
(* and then writes.  Spec serves the requests one after the other,         *)
(* SpecConc has two review requests in flight, each with its own session.  *)
(***************************************************************************)
EXTENDS Integers, Sequences, FiniteSets, TLC

(* ----------------------------- bounds ---------------------------------- *)
MaxImages == 2
MaxMatches == 2
MaxCands == 2

(* ------------------------- input domains ------------------------------- *)
\* users.id values handed over by get_current_user
Users == {1, 2}
\* the user that uploads images; the other one only calls the review endpoints
Uploaders == {1}
\* uploaded byte strings: "empty" (no bytes) and "notimage" (bytes imghdr does
\* not recognise, under a name that is no image's) are rejected by upload_to_s3
Files == {"empty", "notimage", "imgA"}
\* a provider result: 0 is a record without "url", 1 and 2 are two pages
CandUrls == {0, 1, 2}
\* SIMILARITY_THRESHOLD = 0.75 of the crawler scripts, in hundredths;
\* scrapping/pipeline.py reads no threshold
SimilarityThreshold == 75
\* similarity the provider reports for each page, in hundredths
CandSimilarity == <<90, 50>>
\* outcomes of the external calls made while one candidate is processed
CandEnvs ==
    {"ok", "download_fail", "upload_fail", "asset_fail", "match_fail", "match_refresh_fail",
     "notif_fail"}
\* ids that find_internal_matches can return
InternalIds == {1, 2}
InternalTypes == {"ip_asset", "image"}
InternalScores == {90}

\* request slots: Spec serves one request at a time, SpecConc two together
Requests == {1, 2}

\* Python None where an id is expected
NoneId == 0
\* TransientImageEntry.id is a uuid string, never a primary key
TransientId == -1

VARIABLES
    images,         \* table images
    assets,         \* table ip_assets
    matches,        \* table ip_matches
    reports,        \* table dmca_reports
    notifications,  \* number of rows of table notifications
    clock,          \* datetime.utcnow(): the time of the latest committed review
    proc,           \* per request slot: the handler it runs and its locals
    ret,            \* what the step just taken returned to its caller
    email_logs,     \* table email_logs
    scoring,          \* one candidate under scoring: its similarities and the verdict
    loader          \* the module globals of embedder and captioner and their callers

vars == <<images, assets, matches, reports, notifications, clock, proc, ret,
          email_logs, scoring, loader>>

\* what the handlers of the matching service never write
auxvars == <<email_logs, scoring, loader>>

dbvars == <<images, assets, matches, reports, notifications>>

(* --------------------------- helpers ----------------------------------- *)
Idx(s) == 1 .. Len(s)

\* rows of dmca_reports rpts whose match_id is m
DossierCount(rpts, m) == Cardinality({i \in Idx(rpts) : rpts[i].match_id = m})

\* rows of ip_matches for one (source_image_id, matched_asset_id) pair
PairCount(ms, src, mid) ==
    Cardinality({i \in Idx(ms) : ms[i].source_image_id = src /\ ms[i].matched_asset_id = mid})

(* ------------------- scrapping/uploader.py ----------------------------- *)
\* upload_to_s3 raises on empty bytes, on bytes that are no image and on an S3
\* client error; otherwise it puts the object under a key that holds a fresh
\* uuid4 and returns its presigned URL: a URL no row holds yet (used are the
\* URLs the tables hold).
\* Variant of upload_to_s3 without the checks of the bytes.
upload_to_s3_unvalidated(file_data, s3_ok, used) ==
    IF ~s3_ok THEN [ok |-> FALSE, url |-> 0, error |-> "upload_s3"]
    ELSE [ok |-> TRUE, error |-> "none",
          url |-> CHOOSE u \in 1 .. Cardinality(used) + 1 :
                     u \notin used /\ \A v \in 1 .. u - 1 : v \in used]

upload_to_s3(file_data, s3_ok, used) ==
    IF file_data = "empty" THEN [ok |-> FALSE, url |-> 0, error |-> "upload_empty"]
    ELSE IF file_data = "notimage" THEN [ok |-> FALSE, url |-> 0, error |-> "upload_not_image"]
    ELSE IF ~s3_ok THEN [ok |-> FALSE, url |-> 0, error |-> "upload_s3"]
    ELSE [ok |-> TRUE, error |-> "none",
          url |-> CHOOSE u \in 1 .. Cardinality(used) + 1 :
                     u \notin used /\ \A v \in 1 .. u - 1 : v \in used]

\* The URLs held by table images.
UsedUrls(imgs) == {imgs[i].image_url : i \in Idx(imgs)}

(* --------------- ip_service/services/database.py ----------------------- *)
\* The Images row save_image builds.  content is the object stored under
\* image_url (the bytes upload_to_s3 has put there).
ImageRow(user_id, image_url, content) ==
    [user_id |-> user_id, image_url |-> image_url, content |-> content]

\* save_image: ValueError without user_id; the row with the same image_url when
\* there is one; else insert and commit.  An IntegrityError is re-raised, any
\* other database error is swallowed and a TransientImageEntry (uuid id, no row)
\* is returned.
save_image(imgs, image_url, content, user_id, db_env) ==
    LET existing == {i \in Idx(imgs) : imgs[i].image_url = image_url}
    IN  IF user_id = 0 THEN [raised |-> TRUE, id |-> NoneId, images |-> imgs]
        ELSE IF existing # {}
        THEN [raised |-> FALSE, id |-> CHOOSE i \in existing : \A j \in existing : i <= j,
              images |-> imgs]
        ELSE IF db_env = "integrity" THEN [raised |-> TRUE, id |-> NoneId, images |-> imgs]
        ELSE IF db_env = "dberror" THEN [raised |-> FALSE, id |-> TransientId, images |-> imgs]
        ELSE [raised |-> FALSE, id |-> Len(imgs) + 1,
              images |-> Append(imgs, ImageRow(user_id, image_url, content))]

\* The IpAssets row save_ip_asset inserts (file_url, the URL of the uploaded
\* copy, is read by no handler modelled here and is left out).
AssetRow(user_id) == [user_id |-> user_id]

\* scraped_data of a row written without a provider payload (JSON null)
NoScrapedData == [url |-> 0, similarity |-> 0]

\* Variant of MatchRow that gives user_confirmed a value (False where the code
\* leaves the column NULL).
MatchRowFlagged(source_image_id, matched_asset_id, similarity_score, scraped_data) ==
    [source_image_id |-> source_image_id,
     matched_asset_id |-> matched_asset_id,
     similarity_score |-> similarity_score,
     user_confirmed |-> "FALSE",
     status |-> "pending",
     reviewed_at |-> 0,
     scraped_data |-> scraped_data]

\* The IpMatches row: user_confirmed, status and reviewed_at take the column
\* defaults (NULL, 'pending', NULL) unless given.
MatchRow(source_image_id, matched_asset_id, similarity_score, scraped_data) ==
    [source_image_id |-> source_image_id,
     matched_asset_id |-> matched_asset_id,
     similarity_score |-> similarity_score,
     user_confirmed |-> "NULL",
     status |-> "pending",
     reviewed_at |-> 0,
     scraped_data |-> scraped_data]

\* The foreign keys of ip_matches: images.id and ip_assets.id.
ForeignKeysOk(imgs, asts, row) ==
    /\ row.source_image_id \in Idx(imgs)
    /\ row.matched_asset_id \in Idx(asts)

\* save_ip_match: add, commit and refresh one row, with no look-up of an
\* existing row for the pair.  db_env: "ok"; "commit_fail", the commit raises,
\* is rolled back and re-raised; "refresh_fail", the row is committed and the
\* refresh after it raises, which is re-raised the same way.
save_ip_match(imgs, asts, ms, source_image_id, matched_asset_id, similarity_score, scraped_data, db_env) ==
    LET row == MatchRow(source_image_id, matched_asset_id, similarity_score, scraped_data)
    IN  IF db_env = "commit_fail" \/ ~ForeignKeysOk(imgs, asts, row)
        THEN [raised |-> TRUE, id |-> NoneId, matches |-> ms]
        ELSE IF db_env = "refresh_fail"
        THEN [raised |-> TRUE, id |-> NoneId, matches |-> Append(ms, row)]
        ELSE [raised |-> FALSE, id |-> Len(ms) + 1, matches |-> Append(ms, row)]

\* save_ip_asset: add and commit one row; a failed commit is rolled back and
\* re-raised.
save_ip_asset(asts, user_id, commit_ok) ==
    IF user_id # 0 /\ commit_ok
    THEN [raised |-> FALSE, id |-> Len(asts) + 1, assets |-> Append(asts, AssetRow(user_id))]
    ELSE [raised |-> TRUE, id |-> NoneId, assets |-> asts]

(* --------------- ip_service/services/ip_notification.py ---------------- *)
\* create_notification: add and commit one row, or raise.
create_notification(n, commit_ok) ==
    IF commit_ok THEN [raised |-> FALSE, notifications |-> n + 1]
    ELSE [raised |-> TRUE, notifications |-> n]

(* ------------------- scrapping/scrapper.py ----------------------------- *)
\* search providers: "serpapi" is the one fetch_images queries, "secondary"
\* stands for any other provider named in sources
Providers == {"serpapi", "secondary"}

\* what a provider answers: ProviderFailed (a timeout, an HTTP error, an
\* unreadable body) or the number of results it has
ProviderFailed == -1

ProviderAnswers == {ProviderFailed} \cup (0 .. MaxCands)

\* the answers of one search: serpapi fails or has 0 .. MaxCands results, the
\* secondary provider fails or has one result
SearchAnswers ==
    {a \in [Providers -> ProviderAnswers] : a["secondary"] \in {ProviderFailed, 1}}

\* fetch_images(img_url, sources, serpapi_key): raises HTTPException unless
\* "serpapi" is in sources and its request succeeds; the results are those of
\* serpapi, no other entry of sources is queried.
fetch_images(sources, answers) ==
    IF "serpapi" \notin sources \/ answers["serpapi"] = ProviderFailed
    THEN [raised |-> TRUE, n |-> 0]
    ELSE [raised |-> FALSE, n |-> answers["serpapi"]]

\* The dict fetch_images returns for one provider result.
Candidate(u) == [url |-> u, similarity |-> IF u = 0 THEN 0 ELSE CandSimilarity[u]]

(* ------------------- scrapping/pipeline.py ----------------------------- *)
\* Variant of ProcessCandidate that gives up on every candidate after the
\* first failed one.
ProcessCandidateAborting(st, sim_image, env, image_id, user_id) ==
    LET failed == [st EXCEPT !.failed = @ + 1]
        up == upload_to_s3("crawled", env # "upload_fail", UsedUrls(st.images))
        asset == save_ip_asset(st.assets, user_id, env # "asset_fail")
        match == save_ip_match(st.images, asset.assets, st.matches, image_id, asset.id,
                               sim_image.similarity, sim_image,
                               IF env = "match_fail" THEN "commit_fail"
                               ELSE IF env = "match_refresh_fail" THEN "refresh_fail"
                               ELSE "ok")
        notif == create_notification(st.notifications, env # "notif_fail")
    IN  IF st.failed > 0 THEN failed
        ELSE IF sim_image.url = 0 THEN failed
        ELSE IF env = "download_fail" THEN failed
        ELSE IF ~up.ok THEN failed
        ELSE IF asset.raised THEN failed
        ELSE IF match.raised
        THEN [failed EXCEPT !.assets = asset.assets, !.matches = match.matches]
        ELSE [st EXCEPT !.assets = asset.assets,
                        !.matches = match.matches,
                        !.notifications = notif.notifications,
                        !.out = Append(@, [id |-> match.id, asset_id |-> asset.id]),
                        !.successful = @ + 1]

\* Variant of ProcessCandidate that counts a candidate as failed when its
\* notification cannot be created.
ProcessCandidateNotifying(st, sim_image, env, image_id, user_id) ==
    LET failed == [st EXCEPT !.failed = @ + 1]
        up == upload_to_s3("crawled", env # "upload_fail", UsedUrls(st.images))
        asset == save_ip_asset(st.assets, user_id, env # "asset_fail")
        match == save_ip_match(st.images, asset.assets, st.matches, image_id, asset.id,
                               sim_image.similarity, sim_image,
                               IF env = "match_fail" THEN "commit_fail"
                               ELSE IF env = "match_refresh_fail" THEN "refresh_fail"
                               ELSE "ok")
        notif == create_notification(st.notifications, env # "notif_fail")
    IN  IF sim_image.url = 0 THEN failed
        ELSE IF env = "download_fail" THEN failed
        ELSE IF ~up.ok THEN failed
        ELSE IF asset.raised THEN failed
        ELSE IF match.raised
        THEN [failed EXCEPT !.assets = asset.assets, !.matches = match.matches]
        ELSE IF notif.raised
        THEN [failed EXCEPT !.assets = asset.assets, !.matches = match.matches]
        ELSE [st EXCEPT !.assets = asset.assets,
                        !.matches = match.matches,
                        !.notifications = notif.notifications,
                        !.out = Append(@, [id |-> match.id, asset_id |-> asset.id]),
                        !.successful = @ + 1]

\* One pass of run_pipeline's loop over similar_images, for candidate i.  st
\* holds the tables and the loop's locals (matches, successful_matches,
\* failed_matches).  Every failure counts the candidate as failed and goes on
\* with the next one; a failed notification is swallowed.
ProcessCandidate(st, sim_image, env, image_id, user_id) ==
    LET failed == [st EXCEPT !.failed = @ + 1]
        up == upload_to_s3("crawled", env # "upload_fail", UsedUrls(st.images))
        asset == save_ip_asset(st.assets, user_id, env # "asset_fail")
        match == save_ip_match(st.images, asset.assets, st.matches, image_id, asset.id,
                               sim_image.similarity, sim_image,
                               IF env = "match_fail" THEN "commit_fail"
                               ELSE IF env = "match_refresh_fail" THEN "refresh_fail"
                               ELSE "ok")
        notif == create_notification(st.notifications, env # "notif_fail")
    IN  IF sim_image.url = 0 THEN failed
        ELSE IF env = "download_fail" THEN failed
        ELSE IF ~up.ok THEN failed
        ELSE IF asset.raised THEN failed
        ELSE IF match.raised
        THEN [failed EXCEPT !.assets = asset.assets, !.matches = match.matches]
        ELSE [st EXCEPT !.assets = asset.assets,
                        !.matches = match.matches,
                        !.notifications = notif.notifications,
                        !.out = Append(@, [id |-> match.id, asset_id |-> asset.id]),
                        !.successful = @ + 1]

\* Variant of PipelineResult that drops the "error" entry of the dict.
PipelineResultWithoutError(success, image_id, out, total, successful, failed, error) ==
    [op |-> "run_pipeline", success |-> success, image_id |-> image_id,
     matches |-> out, total_found |-> total,
     successful |-> successful, failed |-> failed, error |-> "none"]

\* The dict run_pipeline returns.
PipelineResult(success, image_id, out, total, successful, failed, error) ==
    [op |-> "run_pipeline", success |-> success, image_id |-> image_id,
     matches |-> out, total_found |-> total,
     successful |-> successful, failed |-> failed, error |-> error]

\* sources=["serpapi"], the list run_pipeline hands to fetch_images
PipelineSources == {"serpapi"}

\* run_pipeline up to its loop: upload_to_s3, save_image, the SERP_API_KEY
\* check and fetch_images.  env is what goes wrong before the search, if
\* anything: "s3" (put_object fails), "integrity" and "dberror" (the commit of
\* save_image fails), "no_key".  fetched is what fetch_images does: it raises
\* or returns n results.  ret is the returned dict, or [op |-> "go"] when the
\* run enters the loop.
PipelineStart(imgs, file, user_id, env, fetched) ==
    LET up == upload_to_s3(file, env # "s3", UsedUrls(imgs))
        saved == save_image(imgs, up.url, file, user_id,
                            IF env \in {"integrity", "dberror"} THEN env ELSE "ok")
    IN  IF ~up.ok
        THEN [images |-> imgs, image_id |-> NoneId,
              ret |-> PipelineResult(FALSE, NoneId, <<>>, 0, 0, 0, up.error)]
        ELSE IF saved.raised
        THEN [images |-> imgs, image_id |-> NoneId,
              ret |-> PipelineResult(FALSE, NoneId, <<>>, 0, 0, 0, "save")]
        ELSE IF env = "no_key"
        THEN [images |-> saved.images, image_id |-> saved.id,
              ret |-> PipelineResult(FALSE, saved.id, <<>>, 0, 0, 0, "serp_key")]
        ELSE IF fetched.raised
        THEN [images |-> saved.images, image_id |-> saved.id,
              ret |-> PipelineResult(FALSE, saved.id, <<>>, 0, 0, 0, "fetch")]
        ELSE IF fetched.n = 0
        THEN [images |-> saved.images, image_id |-> saved.id,
              ret |-> PipelineResult(TRUE, saved.id, <<>>, 0, 0, 0, "none")]
        ELSE [images |-> saved.images, image_id |-> saved.id, ret |-> [op |-> "go"]]

(* ------ scoring: embedder.py, internal_matching.py, reverse_image.py, i_crawler.py ------ *)
\* INTERNAL_SIMILARITY_THRESHOLD = 0.2, in hundredths
InternalSimilarityThreshold == 20

\* cosine similarities, in hundredths, around the two thresholds
Sims == {-10, 0, 19, 20, 74, 75, 90}

\* cosine_similarity(a, b) of embedder.py: a / a.norm() needs a tensor, on a
\* list it raises AttributeError; sim is the dot product of the normalised
\* vectors.
cosine_similarity(a_kind, sim) ==
    IF a_kind = "tensor" THEN [raised |-> FALSE, sim |-> sim]
    ELSE [raised |-> TRUE, sim |-> 0]

\* One of the two loops of find_internal_matches over rows embs, each with
\* the id it refers to and the similarity of its vector to the input.
RECURSIVE ScanEmbeddings(_, _, _, _)
ScanEmbeddings(vector_kind, type, embs, acc) ==
    IF acc.raised \/ embs = <<>> THEN acc
    ELSE LET c == cosine_similarity(vector_kind, Head(embs).sim)
         IN  IF c.raised THEN [raised |-> TRUE, matches |-> <<>>]
             ELSE ScanEmbeddings(vector_kind, type, Tail(embs),
                      IF c.sim # 0 /\ c.sim >= InternalSimilarityThreshold
                      THEN [acc EXCEPT !.matches =
                               Append(@, [type |-> type, id |-> Head(embs).id,
                                          similarity_score |-> c.sim])]
                      ELSE acc)

\* find_internal_matches(db, input_vector, exclude_image_id): a tensor is
\* turned into a list first, so the vector compared is a list whatever came in.
find_internal_matches(input_kind, ip_embs, image_embs, exclude_image_id) ==
    LET vector_kind == IF input_kind = "tensor" THEN "list" ELSE input_kind
        kept == SelectSeq(image_embs, LAMBDA e : exclude_image_id = NoneId \/ e.id # exclude_image_id)
        first == ScanEmbeddings(vector_kind, "ip_asset", ip_embs,
                                [raised |-> FALSE, matches |-> <<>>])
    IN  ScanEmbeddings(vector_kind, "image", kept, first)

\* the test of process_results (reverse_image.py) on one result
process_results_match(sim_img, sim_txt) ==
    sim_img > SimilarityThreshold \/ sim_txt > SimilarityThreshold

\* the test of process_images (i_crawler.py) on one downloaded image
process_images_match(sim_img, sim_txt) ==
    sim_img > SimilarityThreshold \/ sim_txt > SimilarityThreshold

(* --------------- scrapping/internal_matching.py ------------------------ *)
\* One dict of the list find_internal_matches returns.
InternalMatch(type, id, score) == [type |-> type, id |-> id, similarity_score |-> score]

\* The look-up save_internal_matches makes before each insert.  The query sees
\* the committed rows, and the rows this call has added so far only when the
\* session flushes before a query.
ExistingMatch(committed, pending, flush, input_image_id, matched_id) ==
    PairCount(IF flush THEN committed \o pending ELSE committed, input_image_id, matched_id) > 0

\* One pass of the loop of save_internal_matches: the rows added to the
\* session after it.
InternalStep(committed, pending, flush, input_image_id, match) ==
    IF ExistingMatch(committed, pending, flush, input_image_id, match.id)
    THEN pending
    ELSE Append(pending, MatchRow(input_image_id, match.id, match.similarity_score, NoScrapedData))

\* The commit that ends save_internal_matches: all added rows or, when the
\* commit fails (the database is down, a foreign key has no target), none.
CommitMatches(imgs, asts, committed, pending, commit_ok) ==
    IF commit_ok /\ \A k \in Idx(pending) : ForeignKeysOk(imgs, asts, pending[k])
    THEN [raised |-> FALSE, matches |-> committed \o pending]
    ELSE [raised |-> TRUE, matches |-> committed]

(* --------------- ip_service/services/dmca_service.py ------------------- *)
\* The DmcaReports row create_dmca_report builds.
ReportRow(user_id, match_id) ==
    [user_id |-> user_id, match_id |-> match_id, status |-> "pending", email_status |-> "NULL"]

\* Variant of create_dmca_report that writes the session's match changes in a
\* commit of their own, before the commit of the report.
create_dmca_report_two_commits(committed, session, rpts, user_id, match_id, env) ==
    IF match_id \notin Idx(session)
    THEN [raised |-> TRUE, id |-> NoneId, matches |-> committed, reports |-> rpts]
    ELSE IF env = "commit_fail"
    THEN [raised |-> TRUE, id |-> NoneId, matches |-> session, reports |-> rpts]
    ELSE [raised |-> (env = "refresh_fail"), id |-> Len(rpts) + 1, matches |-> session,
          reports |-> Append(rpts, ReportRow(user_id, match_id))]

\* Variant of create_dmca_report that does not verify that the match exists.
create_dmca_report_unverified(committed, session, rpts, user_id, match_id, env) ==
    IF env = "commit_fail"
    THEN [raised |-> TRUE, id |-> NoneId, matches |-> committed, reports |-> rpts]
    ELSE [raised |-> (env = "refresh_fail"), id |-> Len(rpts) + 1, matches |-> session,
          reports |-> Append(rpts, ReportRow(user_id, match_id))]

\* create_dmca_report(db, user_id, match_id, scraped_data).  session is table
\* ip_matches as the caller's session holds it (its uncommitted changes
\* applied): the one commit writes those changes and the new row together.
\* No existing report of the match is looked up.  env: "ok"; "commit_fail",
\* the commit raises and everything is rolled back; "refresh_fail", the
\* commit is done and the refresh after it raises.
create_dmca_report(committed, session, rpts, user_id, match_id, env) ==
    IF match_id \notin Idx(session)
    THEN [raised |-> TRUE, id |-> NoneId, matches |-> committed, reports |-> rpts]
    ELSE IF env = "commit_fail"
    THEN [raised |-> TRUE, id |-> NoneId, matches |-> committed, reports |-> rpts]
    ELSE [raised |-> (env = "refresh_fail"), id |-> Len(rpts) + 1, matches |-> session,
          reports |-> Append(rpts, ReportRow(user_id, match_id))]

(* --------------- ip_service/routes/ip_routes.py ------------------------ *)
\* match.status = request.action + 'ed'
ActionStatus(action) == action \o "ed"

\* The three assignments of the review: status, reviewed_at, user_confirmed.
ReviewedRow(row, action, now) ==
    [row EXCEPT !.status = ActionStatus(action),
                !.reviewed_at = now,
                !.user_confirmed = IF action = "confirm" THEN "TRUE" ELSE "FALSE"]

\* The caller owns the source image of the match.
OwnsMatch(imgs, row, user_id) ==
    \E i \in Idx(imgs) : i = row.source_image_id /\ imgs[i].user_id = user_id

\* What confirm_or_decline_match answers: an HTTP status and, for 200, the
\* returned dict.
\* An HTTPException carries its status code and detail only; a 200 answer is
\* kept with the match_id and action of the call it answers.
ReviewResponse(match_id, action, code, message, status, dmca_report_id) ==
    IF code = 200
    THEN [op |-> "review", code |-> code, success |-> TRUE, message |-> message,
          match_id |-> match_id, action |-> action, status |-> status,
          dmca_report_id |-> dmca_report_id]
    ELSE [op |-> "review", code |-> code, success |-> FALSE, message |-> message]

\* confirm_or_decline_match after its checks: the assignments, the report for
\* a confirm, the commit and the answer, over the committed tables ms and
\* rpts (the UPDATE writes the three assigned columns of the row, whatever
\* another request has committed since the checks).
ReviewWrite(ms, rpts, match_id, action, user_id, now, env) ==
    LET session == [ms EXCEPT ![match_id] = ReviewedRow(@, action, now)]
        dmca == create_dmca_report(ms, session, rpts, user_id, match_id, env)
    IN  IF action = "confirm"
        THEN [matches |-> dmca.matches, reports |-> dmca.reports,
              ret |-> IF dmca.raised
                      THEN ReviewResponse(match_id, action, 500,
                                          "Match confirmed but DMCA generation failed", "", NoneId)
                      ELSE ReviewResponse(match_id, action, 200,
                                          "Match confirmed and DMCA report generated",
                                          "confirmed", dmca.id)]
        ELSE IF env = "commit_fail"
        THEN [matches |-> ms, reports |-> rpts,
              ret |-> ReviewResponse(match_id, action, 500,
                                     "Failed to review match", "", NoneId)]
        ELSE [matches |-> session, reports |-> rpts,
              ret |-> ReviewResponse(match_id, action, 200,
                                     "Match declined and moved to history", "declined", NoneId)]

\* Variant of ReviewCheck without the look at the status: every review of an
\* existing, owned match goes on to write.
ReviewCheckIgnoringStatus(imgs, ms, match_id, action, user_id) ==
    IF action \notin {"confirm", "decline"}
    THEN ReviewResponse(match_id, action, 400, "Invalid action", "", NoneId)
    ELSE IF match_id \notin Idx(ms)
    THEN ReviewResponse(match_id, action, 404, "Match not found", "", NoneId)
    ELSE IF ~OwnsMatch(imgs, ms[match_id], user_id)
    THEN ReviewResponse(match_id, action, 403, "Access denied", "", NoneId)
    ELSE [op |-> "go"]

\* The checks before the write: action, existence, ownership, already reviewed.
\* "go" when the request goes on to write.
ReviewCheck(imgs, ms, match_id, action, user_id) ==
    IF action \notin {"confirm", "decline"}
    THEN ReviewResponse(match_id, action, 400, "Invalid action", "", NoneId)
    ELSE IF match_id \notin Idx(ms)
    THEN ReviewResponse(match_id, action, 404, "Match not found", "", NoneId)
    ELSE IF ~OwnsMatch(imgs, ms[match_id], user_id)
    THEN ReviewResponse(match_id, action, 403, "Access denied", "", NoneId)
    ELSE IF ms[match_id].status # "pending"
    THEN ReviewResponse(match_id, action, 200, "Match already " \o ms[match_id].status,
                        ms[match_id].status, NoneId)
    ELSE [op |-> "go"]

(* --------------- ip_service/routes/notification.py --------------------- *)
\* confirm_match(match_id, confirm) up to its first commit: writes
\* user_confirmed alone, whoever the caller is.  "go" when the request goes on.
LegacyConfirm(ms, match_id, confirm) ==
    IF match_id \notin Idx(ms)
    THEN [matches |-> ms, ret |-> [op |-> "confirm_match", code |-> 404, success |-> FALSE]]
    ELSE [matches |-> [ms EXCEPT ![match_id].user_confirmed = IF confirm THEN "TRUE" ELSE "FALSE"],
          ret |-> [op |-> "go"]]

\* The rest of confirm_match: a notification, added and committed, when
\* confirm is true, and the answer.  A failed commit escapes as a 500.
LegacyNotify(n, match_id, confirm, commit_ok) ==
    IF confirm /\ ~commit_ok
    THEN [notifications |-> n, ret |-> [op |-> "confirm_match", code |-> 500, success |-> FALSE]]
    ELSE [notifications |-> IF confirm THEN n + 1 ELSE n,
          ret |-> [op |-> "confirm_match", code |-> 200, success |-> TRUE, match_id |-> match_id,
                   confirmed |-> confirm]]

(* ------------------------------ state ---------------------------------- *)
Idle == [pc |-> "idle"]

\* the step just taken has returned nothing (the handler goes on)
NoResponse == [op |-> "none"]
\* no candidate under scoring
NoScore == [pc |-> "none"]
\* the modules with a lazily loaded model
Modules == {"embedder", "captioner"}
\* a thread outside _ensure_model_loaded
NotCalling == [pc |-> "idle", m |-> "none"]
\* the globals at import (_clip_model = None, _lock = threading.Lock(), ...):
\* nothing loaded, the locks free (0), no caller
NoLoader ==
    [model |-> [m \in Modules |-> FALSE],
     processor |-> [m \in Modules |-> FALSE],
     lock |-> [m \in Modules |-> 0],
     thr |-> [t \in Requests |-> NotCalling]]
\* the candidates handed to a scoring path
ScoreInputs == {[pc |-> "input", sim_img |-> a, sim_txt |-> b] : a, b \in Sims}

InitService ==
    /\ images = <<>>
    /\ assets = <<>>
    /\ matches = <<>>
    /\ reports = <<>>
    /\ notifications = 0
    /\ clock = 0
    /\ proc = [r \in Requests |-> Idle]
    /\ ret = NoResponse

Init ==
    /\ InitService
    /\ email_logs = <<>>
    /\ scoring = NoScore
    /\ loader = NoLoader

\* rows of ip_assets and of ip_matches the handler of slot r may still insert
AssetsToCome(r) ==
    IF proc[r].pc = "pipeline" THEN proc[r].total_found - proc[r].idx ELSE 0

MatchesToCome(r) ==
    IF proc[r].pc = "save" THEN proc[r].todo + Len(proc[r].pending) ELSE AssetsToCome(r)

\* the tables stay within MaxMatches rows when a handler adds up to n rows
RoomForAssets(n) == Len(assets) + AssetsToCome(1) + AssetsToCome(2) + n <= MaxMatches

RoomForMatches(n) == Len(matches) + MatchesToCome(1) + MatchesToCome(2) + n <= MaxMatches

(* ------------------- POST /ip/run-pipeline ----------------------------- *)
run_pipeline_start(r) ==
    \E file \in Files, user_id \in Uploaders, answers \in SearchAnswers,
       env \in {"ok", "s3", "integrity", "dberror", "no_key"} :
        LET fetched == fetch_images(PipelineSources, answers)
            n == fetched.n
            start == PipelineStart(images, file, user_id, env, fetched)
        IN  /\ proc[r].pc = "idle"
            /\ Len(images) < MaxImages
            /\ RoomForAssets(n)
            /\ RoomForMatches(n)
            /\ images' = start.images
            /\ IF start.ret.op = "go"
               THEN /\ proc' = [proc EXCEPT ![r] =
                                   [pc |-> "pipeline", user_id |-> user_id,
                                    image_id |-> start.image_id, total_found |-> n, idx |-> 0,
                                    out |-> <<>>, successful |-> 0, failed |-> 0]]
                    /\ ret' = NoResponse
               ELSE /\ ret' = start.ret
                    /\ UNCHANGED proc
            /\ UNCHANGED <<assets, matches, reports, notifications, clock, auxvars>>

\* one pass of the loop; the pass for the last result also returns
run_pipeline_loop(r) ==
    \E url \in CandUrls, env \in CandEnvs :
        LET p == proc[r]
            st == ProcessCandidate([images |-> images, assets |-> assets, matches |-> matches,
                                    notifications |-> notifications, out |-> p.out,
                                    successful |-> p.successful, failed |-> p.failed],
                                   Candidate(url), env, p.image_id, p.user_id)
        IN  /\ p.pc = "pipeline"
            /\ url = 0 => env = "ok"
            /\ assets' = st.assets
            /\ matches' = st.matches
            /\ notifications' = st.notifications
            /\ IF p.idx + 1 < p.total_found
               THEN /\ proc' = [proc EXCEPT ![r].idx = @ + 1, ![r].out = st.out,
                                            ![r].successful = st.successful,
                                            ![r].failed = st.failed]
                    /\ ret' = NoResponse
               ELSE /\ proc' = [proc EXCEPT ![r] = Idle]
                    /\ ret' = PipelineResult(TRUE, p.image_id, st.out, p.total_found,
                                           st.successful, st.failed, "none")
            /\ UNCHANGED <<images, reports, clock, auxvars>>

(* ------------- save_internal_matches(db, input_image_id, list) --------- *)
\* db is the caller's Session: autoflush is whether it flushes before a query
save_internal_matches_start(r) ==
    \E autoflush \in BOOLEAN, input_image_id \in 1 .. MaxImages, n \in 0 .. MaxCands :
        /\ proc[r].pc = "idle"
        /\ RoomForMatches(n)
        /\ proc' = [proc EXCEPT ![r] = [pc |-> "save", autoflush |-> autoflush,
                                        input_image_id |-> input_image_id,
                                        todo |-> n, pending |-> <<>>]]
        /\ ret' = NoResponse
        /\ UNCHANGED <<dbvars, clock, auxvars>>

save_internal_matches_loop(r) ==
    \E type \in InternalTypes, id \in InternalIds, score \in InternalScores :
        LET p == proc[r]
        IN  /\ p.pc = "save"
            /\ p.todo > 0
            /\ proc' = [proc EXCEPT ![r].todo = @ - 1,
                                    ![r].pending = InternalStep(matches, p.pending, p.autoflush,
                                                                p.input_image_id,
                                                                InternalMatch(type, id, score))]
            /\ ret' = NoResponse
            /\ UNCHANGED <<dbvars, clock, auxvars>>

save_internal_matches_commit(r) ==
    \E commit_ok \in BOOLEAN :
        LET p == proc[r]
            done == CommitMatches(images, assets, matches, p.pending, commit_ok)
        IN  /\ p.pc = "save"
            /\ p.todo = 0
            /\ matches' = done.matches
            /\ proc' = [proc EXCEPT ![r] = Idle]
            /\ ret' = [op |-> "save_internal_matches", raised |-> done.raised]
            /\ UNCHANGED <<images, assets, reports, notifications, clock, auxvars>>

(* ------------- POST /ip/confirm-match/{match_id} ----------------------- *)
\* the reads and checks
confirm_or_decline_match_check(r) ==
    \E match_id \in 1 .. MaxMatches, action \in {"confirm", "decline", "approve"},
       user_id \in Users :
        LET check == ReviewCheck(images, matches, match_id, action, user_id)
        IN  /\ proc[r].pc = "idle"
            /\ IF check.op = "go"
               THEN /\ proc' = [proc EXCEPT ![r] = [pc |-> "review", match_id |-> match_id,
                                                    action |-> action, user_id |-> user_id]]
                    /\ ret' = NoResponse
               ELSE /\ ret' = check
                    /\ UNCHANGED proc
            /\ UNCHANGED <<dbvars, clock, auxvars>>

\* the assignments, create_dmca_report, the commit and the answer
confirm_or_decline_match_write(r) ==
    \E env \in {"ok", "commit_fail", "refresh_fail"} :
        LET p == proc[r]
            write == ReviewWrite(matches, reports, p.match_id, p.action, p.user_id, clock + 1, env)
        IN  /\ p.pc = "review"
            /\ p.action = "decline" => env # "refresh_fail"
            /\ clock' = IF write.matches # matches THEN clock + 1 ELSE clock
            /\ matches' = write.matches
            /\ reports' = write.reports
            /\ proc' = [proc EXCEPT ![r] = Idle]
            /\ ret' = write.ret
            /\ UNCHANGED <<images, assets, notifications, auxvars>>

(* ------------- POST /notifications/confirm-match/{match_id} ------------ *)
\* the look-up and the commit of user_confirmed
confirm_match_write(r) ==
    \E match_id \in 1 .. MaxMatches, confirm \in BOOLEAN, user_id \in Users :
        LET done == LegacyConfirm(matches, match_id, confirm)
        IN  /\ proc[r].pc = "idle"
            /\ notifications + (IF confirm THEN 1 ELSE 0) <= MaxMatches
            /\ matches' = done.matches
            /\ IF done.ret.op = "go"
               THEN /\ proc' = [proc EXCEPT ![r] = [pc |-> "legacy", user_id |-> user_id,
                                                    match_id |-> match_id, confirm |-> confirm]]
                    /\ ret' = NoResponse
               ELSE /\ ret' = done.ret
                    /\ UNCHANGED proc
            /\ UNCHANGED <<images, assets, reports, notifications, clock, auxvars>>

\* the notification and the answer
confirm_match_notify(r) ==
    \E commit_ok \in BOOLEAN :
        LET p == proc[r]
            done == LegacyNotify(notifications, p.match_id, p.confirm, commit_ok)
        IN  /\ p.pc = "legacy"
            /\ notifications' = done.notifications
            /\ proc' = [proc EXCEPT ![r] = Idle]
            /\ ret' = done.ret
            /\ UNCHANGED <<images, assets, matches, reports, clock, auxvars>>

(* ------------- ip_routes.py: the two lists of matches ------------------ *)
\* GET /ip/matches/{image_id}: 404 unless the image is the caller's, else the
\* ids of the image's matches whose status is 'pending'
get_matches(imgs, ms, image_id, user_id) ==
    IF image_id \notin Idx(imgs) \/ imgs[image_id].user_id # user_id
    THEN [op |-> "get_matches", code |-> 404, ids |-> {}]
    ELSE [op |-> "get_matches", code |-> 200,
          ids |-> {i \in Idx(ms) : ms[i].source_image_id = image_id /\ ms[i].status = "pending"}]

\* the values of the optional query parameter status
HistoryFilters == {"none", "confirmed", "declined", "pending"}

\* GET /ip/match-history?status=...: the ids of the matches of the caller's
\* images whose status is 'confirmed' or 'declined', narrowed to status when
\* it is one of the two; a row without reviewed_at fails in the response
\* loop and is skipped.
get_match_history(imgs, ms, user_id, status) ==
    LET mine == {i \in Idx(imgs) : imgs[i].user_id = user_id}
    IN  [op |-> "get_match_history", code |-> 200,
         ids |-> {i \in Idx(ms) :
                    /\ ms[i].source_image_id \in mine
                    /\ ms[i].status \in {"confirmed", "declined"}
                    /\ status \in {"confirmed", "declined"} => ms[i].status = status
                    /\ ms[i].reviewed_at # 0}]

(* ------------- ip_service/services/email_service.py ------------------- *)
\* the parameters of send_dmca_email
EmailParameters ==
    {"recipient_email", "recipient_name", "report_data", "pdf_path", "user_info",
     "additional_message"}

\* the keyword arguments send_dmca_report_email calls it with
EmailKeywords ==
    {"report", "recipient_email", "recipient_name", "sender_name", "sender_email",
     "additional_message"}

\* send_dmca_email(**keywords): a keyword that is no parameter is a TypeError
\* at the call; the body returns a dict, success False when SMTP fails.
send_dmca_email(keywords, smtp_ok) ==
    IF ~(keywords \subseteq EmailParameters) THEN [raised |-> TRUE, success |-> FALSE]
    ELSE [raised |-> FALSE, success |-> smtp_ok]

\* addresses a report is sent to
Recipients == {"host@example.com", "abuse@example.com"}

\* a row of email_logs
EmailLogRow(report_id, user_id, recipient_email, status, sent_at) ==
    [report_id |-> report_id, user_id |-> user_id, recipient_email |-> recipient_email,
     status |-> status, sent_at |-> sent_at]

\* the answer of POST /dmca/report/{report_id}/send-email
SendResponse(code, detail) == [op |-> "send_dmca_report_email", code |-> code, detail |-> detail]

\* send_dmca_report_email(report_id, request, current_user, db).  Returns the
\* tables and the answer.  config_ok: EMAIL_USER and EMAIL_PASS are set.
send_dmca_report_email_body(rpts, logs, report_id, user_id, recipient_email, now, config_ok, smtp_ok, commit_ok) ==
    LET unchanged(code, detail) ==
            [reports |-> rpts, email_logs |-> logs, ret |-> SendResponse(code, detail)]
        email_result == send_dmca_email(EmailKeywords, smtp_ok)
        status == IF email_result.success THEN "sent" ELSE "failed"
    IN  IF ~config_ok THEN unchanged(500, "not_configured")
        ELSE IF report_id \notin Idx(rpts) \/ rpts[report_id].user_id # user_id
        THEN unchanged(404, "not_found")
        ELSE IF email_result.raised THEN unchanged(500, "error")
        ELSE IF ~commit_ok THEN unchanged(500, "error")
        ELSE [reports |-> [rpts EXCEPT ![report_id].email_status = status],
              email_logs |-> Append(logs, EmailLogRow(report_id, user_id, recipient_email,
                                                      status, now)),
              ret |-> IF email_result.success THEN SendResponse(200, "sent")
                      ELSE SendResponse(500, "send_failed")]

(* ------------- ip_service/services/dmca_service.py: update_dmca_status -- *)
\* the status strings callers pass; the function accepts any string
StatusInputs == {"pending", "sent", "delivered", "failed", "resolved"}

\* update_dmca_status(db, report_id, status): ValueError when the report is
\* missing, else the status is overwritten with the string given.
update_dmca_status(rpts, report_id, status, commit_ok) ==
    IF report_id \notin Idx(rpts) \/ ~commit_ok
    THEN [raised |-> TRUE, reports |-> rpts]
    ELSE [raised |-> FALSE, reports |-> [rpts EXCEPT ![report_id].status = status]]

(* ------------- embedder.py / captioner.py: _ensure_model_loaded -------- *)
\* the test before the lock: both globals of module m are set
Loaded(ld, m) == ld.model[m] /\ ld.processor[m]

\* Variant of LoadedUnderLock that does not look again.
LoadedUnderLockUnchecked(ld, m) == FALSE

\* the same test, made again by the holder of the lock
LoadedUnderLock(ld, m) == ld.model[m] /\ ld.processor[m]

\* leaving the with block releases the lock; the call returns
Released(ld, t) ==
    [ld EXCEPT !.lock[ld.thr[t].m] = 0, !.thr[t] = NotCalling]

\* thread t calls _ensure_model_loaded of module m
ensure_model_loaded_call(t) ==
    \E m \in Modules :
        /\ loader.thr[t].pc = "idle"
        /\ loader' = [loader EXCEPT !.thr[t] = [pc |-> "check", m |-> m]]
        /\ UNCHANGED <<dbvars, clock, proc, ret, email_logs, scoring>>

\* the first test: return when loaded, else go for the lock
ensure_model_loaded_check(t) ==
    /\ loader.thr[t].pc = "check"
    /\ loader' = IF Loaded(loader, loader.thr[t].m)
                 THEN [loader EXCEPT !.thr[t] = NotCalling]
                 ELSE [loader EXCEPT !.thr[t].pc = "lock"]
    /\ UNCHANGED <<dbvars, clock, proc, ret, email_logs, scoring>>

\* with _lock: blocks until the lock is free
ensure_model_loaded_acquire(t) ==
    /\ loader.thr[t].pc = "lock"
    /\ loader.lock[loader.thr[t].m] = 0
    /\ loader' = [loader EXCEPT !.lock[loader.thr[t].m] = t, !.thr[t].pc = "recheck"]
    /\ UNCHANGED <<dbvars, clock, proc, ret, email_logs, scoring>>

\* the second test, under the lock
ensure_model_loaded_recheck(t) ==
    /\ loader.thr[t].pc = "recheck"
    /\ loader' = IF LoadedUnderLock(loader, loader.thr[t].m)
                 THEN Released(loader, t)
                 ELSE [loader EXCEPT !.thr[t].pc = "load_processor"]
    /\ UNCHANGED <<dbvars, clock, proc, ret, email_logs, scoring>>

\* Processor.from_pretrained: sets the global, or raises and the except
\* clause logs
ensure_model_loaded_processor(t) ==
    \E ok \in BOOLEAN :
        /\ loader.thr[t].pc = "load_processor"
        /\ loader' = IF ok
                     THEN [loader EXCEPT !.processor[loader.thr[t].m] = TRUE,
                                         !.thr[t].pc = "load_model"]
                     ELSE Released(loader, t)
        /\ UNCHANGED <<dbvars, clock, proc, ret, email_logs, scoring>>

\* Model.from_pretrained(...).to(device): sets the global, or raises
ensure_model_loaded_model(t) ==
    \E ok \in BOOLEAN :
        /\ loader.thr[t].pc = "load_model"
        /\ loader' = IF ok
                     THEN Released([loader EXCEPT !.model[loader.thr[t].m] = TRUE], t)
                     ELSE Released(loader, t)
        /\ UNCHANGED <<dbvars, clock, proc, ret, email_logs, scoring>>

(* ------------- GET /ip/matches/{image_id}, GET /ip/match-history ------- *)
get_matches_call(r) ==
    \E image_id \in 1 .. MaxImages, user_id \in Users :
        /\ proc[r].pc = "idle"
        /\ ret' = get_matches(images, matches, image_id, user_id)
        /\ UNCHANGED <<dbvars, clock, proc, auxvars>>

get_match_history_call(r) ==
    \E user_id \in Users, status \in HistoryFilters :
        /\ proc[r].pc = "idle"
        /\ ret' = get_match_history(images, matches, user_id, status)
        /\ UNCHANGED <<dbvars, clock, proc, auxvars>>

(* ------------- POST /ip/dmca/report/{report_id}/send-email ------------- *)
send_dmca_report_email(r) ==
    \E report_id \in 1 .. MaxMatches, user_id \in Users, recipient_email \in Recipients,
       config_ok \in BOOLEAN, smtp_ok \in BOOLEAN, commit_ok \in BOOLEAN :
        LET done == send_dmca_report_email_body(reports, email_logs, report_id, user_id,
                                                recipient_email, clock, config_ok, smtp_ok,
                                                commit_ok)
        IN  /\ proc[r].pc = "idle"
            /\ reports' = done.reports
            /\ email_logs' = done.email_logs
            /\ ret' = done.ret
            /\ UNCHANGED <<images, assets, matches, notifications, clock, proc, scoring, loader>>

(* ------------- update_dmca_status(db, report_id, status) --------------- *)
update_dmca_status_call(r) ==
    \E report_id \in 1 .. MaxMatches, status \in StatusInputs, commit_ok \in BOOLEAN :
        LET done == update_dmca_status(reports, report_id, status, commit_ok)
        IN  /\ proc[r].pc = "idle"
            /\ reports' = done.reports
            /\ ret' = [op |-> "update_dmca_status", raised |-> done.raised]
            /\ UNCHANGED <<images, assets, matches, notifications, clock, proc, auxvars>>

(* ------------------------- the scoring paths --------------------------- *)
\* the verdict of a scoring path on the candidate in scoring
Scored(path, raised, qualifies) ==
    [pc |-> "done", path |-> path, sim_img |-> scoring.sim_img, sim_txt |-> scoring.sim_txt,
     raised |-> raised, qualifies |-> qualifies]

\* the internal corpus scan: the candidate is protected asset 1, next to the
\* embedding of image 1
find_internal_matches_scan ==
    \E input_kind \in {"tensor", "list"}, exclude_image_id \in {NoneId, 1} :
        LET found == find_internal_matches(input_kind,
                         <<[id |-> 1, sim |-> scoring.sim_img]>>,
                         <<[id |-> 1, sim |-> scoring.sim_txt]>>, exclude_image_id)
        IN  /\ scoring.pc = "input"
            /\ scoring' = Scored("find_internal_matches", found.raised,
                               \E k \in Idx(found.matches) :
                                   found.matches[k].type = "ip_asset")
            /\ UNCHANGED <<dbvars, clock, proc, ret, email_logs, loader>>

process_results_check ==
    /\ scoring.pc = "input"
    /\ scoring' = Scored("process_results", FALSE,
                       process_results_match(scoring.sim_img, scoring.sim_txt))
    /\ UNCHANGED <<dbvars, clock, proc, ret, email_logs, loader>>

process_images_check ==
    /\ scoring.pc = "input"
    /\ scoring' = Scored("process_images", FALSE,
                       process_images_match(scoring.sim_img, scoring.sim_txt))
    /\ UNCHANGED <<dbvars, clock, proc, ret, email_logs, loader>>

(* --------------------------- specifications ---------------------------- *)
Pipeline(r) == run_pipeline_start(r) \/ run_pipeline_loop(r)

Internal(r) ==
    \/ save_internal_matches_start(r)
    \/ save_internal_matches_loop(r)
    \/ save_internal_matches_commit(r)

Review(r) == confirm_or_decline_match_check(r) \/ confirm_or_decline_match_write(r)

Legacy(r) == confirm_match_write(r) \/ confirm_match_notify(r)

\* requests served one after the other
Next == Pipeline(1) \/ Internal(1) \/ Review(1) \/ Legacy(1)

Spec == Init /\ [][Next]_vars

\* two review requests in flight, each with its own session, after and
\* during pipeline runs
NextConc == Pipeline(1) \/ \E r \in Requests : Review(r)

SpecConc == Init /\ [][NextConc]_vars

\* one candidate, scored by each of the scoring paths
InitScore ==
    /\ InitService
    /\ email_logs = <<>>
    /\ loader = NoLoader
    /\ scoring \in ScoreInputs

NextScore == find_internal_matches_scan \/ process_results_check \/ process_images_check

SpecScore == InitScore /\ [][NextScore]_vars

\* runs, reviews and the two lists
Views(r) == get_matches_call(r) \/ get_match_history_call(r)

NextViews == Pipeline(1) \/ Review(1) \/ Views(1)

SpecViews == Init /\ [][NextViews]_vars

\* reviews that create reports, and the operations on reports
Mail(r) == send_dmca_report_email(r) \/ update_dmca_status_call(r)

NextMail == Pipeline(1) \/ Review(1) \/ Mail(1)

SpecMail == Init /\ [][NextMail]_vars

\* threads calling _ensure_model_loaded of either module at any time
EnsureModelLoaded(t) ==
    \/ ensure_model_loaded_call(t)
    \/ ensure_model_loaded_check(t)
    \/ ensure_model_loaded_acquire(t)
    \/ ensure_model_loaded_recheck(t)
    \/ ensure_model_loaded_processor(t)
    \/ ensure_model_loaded_model(t)

NextLoad == \E t \in Requests : EnsureModelLoaded(t)

SpecLoad == Init /\ [][NextLoad]_vars

(* ------------------------------ claims --------------------------------- *)
\* C1: after any sequence of run_pipeline runs and save_internal_matches
\* calls, table ip_matches holds at most one row for each pair
\* (source_image_id, matched_asset_id).
C1_OneRowPerPair ==
    \A i, j \in Idx(matches) :
        (/\ matches[i].source_image_id = matches[j].source_image_id
         /\ matches[i].matched_asset_id = matches[j].matched_asset_id) => i = j

\* C2: a second run_pipeline over the same source image (the same bytes from
\* the same user) with unchanged candidates adds no ip_matches row: no
\* candidate URL is matched once for each of two uploads of the same bytes.
C2_RerunAddsNoMatch ==
    \A i, j \in Idx(matches) :
        (/\ matches[i].source_image_id # matches[j].source_image_id
         /\ matches[i].source_image_id \in Idx(images)
         /\ matches[j].source_image_id \in Idx(images)
         /\ images[matches[i].source_image_id].content = images[matches[j].source_image_id].content
         /\ images[matches[i].source_image_id].user_id = images[matches[j].source_image_id].user_id
         /\ matches[i].scraped_data.url # 0)
        => matches[i].scraped_data.url # matches[j].scraped_data.url

\* C3: the status of a match is one of pending, confirmed, declined.
C3_StatusDomain ==
    \A i \in Idx(matches) : matches[i].status \in {"pending", "confirmed", "declined"}

\* C4: a review of a match that is no longer pending answers success with the
\* status the match has, confirmed or declined, and changes no ip_matches
\* and no dmca_reports row.
C4_ReviewOfReviewedMatch ==
    [][(/\ ret'.op = "review"
        /\ ret'.code = 200
        /\ ret'.match_id \in Idx(matches)
        /\ matches[ret'.match_id].status # "pending")
       => (/\ ret'.success
           /\ ret'.status = matches[ret'.match_id].status
           /\ ret'.status \in {"confirmed", "declined"}
           /\ matches' = matches
           /\ reports' = reports)]_vars

\* C5: of two or more confirm calls on one match made one after the other,
\* each answers status confirmed, and after each exactly one dmca_reports row
\* exists for the match.
C5_RepeatedConfirm ==
    [][(/\ ret'.op = "review"
        /\ ret'.code = 200
        /\ ret'.action = "confirm"
        /\ ret'.match_id \in Idx(matches)
        /\ matches[ret'.match_id].status \in {"pending", "confirmed"})
       => (/\ ret'.status = "confirmed"
           /\ matches'[ret'.match_id].status = "confirmed"
           /\ DossierCount(reports', ret'.match_id) = 1)]_vars

\* a confirm call has found the match confirmed by an earlier call
C5_SecondConfirmAnswered ==
    /\ ret.op = "review"
    /\ ret.code = 200
    /\ ret.action = "confirm"
    /\ ret.message = "Match already confirmed"
    /\ matches[ret.match_id].status = "confirmed"
    /\ DossierCount(reports, ret.match_id) = 1

\* C6: of two review requests for one pending match that interleave, at most
\* one performs the transition and creates a dmca_reports row: a review that
\* writes to ip_matches or dmca_reports finds the match pending when it writes.
C6_OneTransition ==
    [][\A r \in Requests :
          (/\ proc[r].pc = "review"
           /\ proc'[r].pc = "idle"
           /\ (matches' # matches \/ reports' # reports))
          => matches[proc[r].match_id].status = "pending"]_vars

\* C7: when dossier creation fails during a confirm, the confirmation stays:
\* the match is committed with status confirmed and its review timestamp.
C7_ConfirmationKept ==
    [][\A r \in Requests :
          (/\ proc[r].pc = "review"
           /\ proc'[r].pc = "idle"
           /\ proc[r].action = "confirm"
           /\ ret'.code = 500
           /\ ret'.message = "Match confirmed but DMCA generation failed")
          => (/\ matches'[proc[r].match_id].status = "confirmed"
              /\ matches'[proc[r].match_id].reviewed_at # 0)]_vars

\* C8: a decline that answers success has committed status declined and a
\* review timestamp.
C8_DeclinePersisted ==
    [][(/\ ret'.op = "review"
        /\ ret'.code = 200
        /\ ret'.action = "decline"
        /\ ret'.message = "Match declined and moved to history")
       => (/\ matches'[ret'.match_id].status = "declined"
           /\ matches'[ret'.match_id].reviewed_at # 0)]_vars

\* C9: in every reachable state a match that was declined (its status is the
\* one a decline writes) has no dmca_reports row.
C9_DeclinedHasNoDossier ==
    \A i \in Idx(matches) :
        matches[i].status \in {"declined", ActionStatus("decline")}
        => DossierCount(reports, i) = 0

\* C10: no match has more than one dmca_reports row.
C10_OneDossierPerMatch ==
    \A i \in Idx(matches) : DossierCount(reports, i) <= 1

\* C11: every ip_matches row is created with status pending, reviewed_at NULL
\* and user_confirmed NULL, whether run_pipeline inserts it through
\* save_ip_match or save_internal_matches inserts it.
C11_CreatedPending ==
    [][\A i \in Idx(matches') :
          i > Len(matches)
          => (/\ matches'[i].status = "pending"
              /\ matches'[i].reviewed_at = 0
              /\ matches'[i].user_confirmed = "NULL")]_vars

\* save_internal_matches has just committed a row next to one of run_pipeline
C11_BothWritersInserted ==
    /\ ret.op = "save_internal_matches"
    /\ ~ret.raised
    /\ \E i, j \in Idx(matches) :
          /\ matches[i].scraped_data.url # 0
          /\ matches[j].scraped_data = NoScrapedData
          /\ matches[j].status = "pending"

\* C12: a request changes a match only when its caller owns the source image
\* of the match: every step of a review (either endpoint) that changes a row
\* of ip_matches is taken for a caller who owns that row's source image.
C12_OnlyOwnerChanges ==
    [][\A r \in Requests :
          /\ (/\ proc[r].pc = "review"
              /\ proc'[r].pc = "idle"
              /\ matches' # matches)
             => OwnsMatch(images, matches[proc[r].match_id], proc[r].user_id)
          /\ (/\ proc[r].pc = "idle"
              /\ proc'[r].pc = "legacy"
              /\ matches' # matches)
             => OwnsMatch(images, matches[proc'[r].match_id], proc'[r].user_id)]_vars

\* C13: a review of a match id that does not exist is answered 404 and writes
\* nothing, and create_dmca_report called for an unknown match id raises
\* without persisting a dmca_reports row.
C13_UnknownMatchRejected ==
    [][/\ \A m \in (1 .. MaxMatches) \ Idx(matches), u \in Users :
             /\ \A a \in {"confirm", "decline"} :
                   ReviewCheck(images, matches, m, a, u).code = 404
             /\ LET dmca == create_dmca_report(matches, matches, reports, u, m, "ok")
                IN  dmca.raised /\ dmca.reports = reports /\ dmca.matches = matches
       /\ (ret'.op = "review" /\ ret'.code = 404) => UNCHANGED dbvars]_vars

\* a review has been answered 404 while ip_matches holds other rows
C13_ReviewAnsweredNotFound ==
    /\ ret.op = "review"
    /\ ret.code = 404
    /\ Len(matches) > 0

\* C14: every run_pipeline invocation ends in exactly one outcome, returned
\* to the caller: Done (success true, no error) or Failed (success false with
\* an error).  A run in its loop either moves on to the next of its
\* total_found candidates or returns; whatever a run returns is one of the two.
C14_OneTerminalOutcome ==
    [][/\ \A r \in Requests :
             (proc[r].pc = "pipeline" /\ proc'[r] # proc[r])
             => \/ /\ proc'[r].pc = "pipeline"
                   /\ proc'[r].idx = proc[r].idx + 1
                   /\ proc'[r].idx < proc'[r].total_found
                   /\ ret' = NoResponse
                \/ /\ proc'[r].pc = "idle"
                   /\ ret'.op = "run_pipeline"
       /\ ret'.op = "run_pipeline"
          => \/ ret'.success /\ ret'.error = "none"
             \/ ~ret'.success /\ ret'.error # "none"]_vars

\* a run has failed after its source image was saved
C14_RunFailedLate ==
    /\ ret.op = "run_pipeline"
    /\ ~ret.success
    /\ ret.error = "fetch"
    /\ ret.image_id \in Idx(images)

\* C15: when the provider returns no candidates, run_pipeline returns success
\* true with an empty matches list and the id of the saved source image, and
\* reports no error.
C15_EmptyResultIsSuccess ==
    [][/\ \A u \in Uploaders :
             LET start == PipelineStart(images, "imgA", u, "ok", [raised |-> FALSE, n |-> 0])
             IN  /\ start.ret.op = "run_pipeline"
                 /\ start.ret.success
                 /\ start.ret.error = "none"
                 /\ start.ret.matches = <<>>
                 /\ start.ret.image_id \in Idx(start.images)
       /\ (ret'.op = "run_pipeline" /\ ret'.success /\ ret'.total_found = 0)
          => (ret'.matches = <<>> /\ ret'.image_id \in Idx(images'))]_vars

\* C16: when one search provider fails and another has valid candidates, the
\* run goes on with the candidates of the provider that answered: it enters
\* the candidate loop instead of returning a failure.
C16_ProviderFailureTolerated ==
    [][\A u \in Uploaders, answers \in SearchAnswers :
          (/\ Len(images) < MaxImages
           /\ \E p \in Providers : answers[p] = ProviderFailed
           /\ \E p \in Providers : answers[p] # ProviderFailed /\ answers[p] >= 1)
          => LET start == PipelineStart(images, "imgA", u, "ok",
                                        fetch_images(PipelineSources, answers))
             IN  start.ret.op = "go" \/ (start.ret.op = "run_pipeline" /\ start.ret.success)]_vars

C19_UnusableInputFailsFast ==
    /\ [](\A file \in {"empty", "notimage"}, u \in Uploaders, answers \in SearchAnswers,
             env \in {"ok", "s3", "integrity", "dberror", "no_key"} :
             LET start == PipelineStart(images, file, u, env,
                                        fetch_images(PipelineSources, answers))
             IN  /\ start.images = images
                 /\ start.ret.op = "run_pipeline"
                 /\ ~start.ret.success
                 /\ start.ret.error \in {"upload_empty", "upload_not_image"}
                 /\ start.ret.image_id = NoneId
                 /\ start.ret.matches = <<>>)
    /\ [][(ret'.op = "run_pipeline" /\ ret'.error \in {"upload_empty", "upload_not_image"}) =>
             /\ ~ret'.success
             /\ ret'.image_id = NoneId
             /\ UNCHANGED dbvars
             /\ proc'[1] = Idle]_vars

\* a run on bytes that are no image was answered, with rows of an earlier run
\* in the tables
C19_NonImageRejected ==
    /\ ret.op = "run_pipeline"
    /\ ret.error = "upload_not_image"
    /\ Len(images) >= 1
    /\ Len(matches) >= 1

\* C20: run_pipeline persists a match only for a candidate whose similarity
\* reaches the threshold: no row written from a provider result has a
\* similarity_score below SimilarityThreshold.
C20_OnlyQualifyingPersisted ==
    \A i \in Idx(matches) :
        matches[i].scraped_data # NoScrapedData =>
            matches[i].similarity_score >= SimilarityThreshold

\* C21: in every scoring path a candidate whose image similarity is exactly
\* the path's threshold qualifies and one strictly below it does not: the
\* verdict is "image similarity >= threshold", and the path gives a verdict.
C21_ThresholdInclusive ==
    scoring.pc = "done" =>
        /\ ~scoring.raised
        /\ scoring.qualifies <=>
              scoring.sim_img >= (IF scoring.path = "find_internal_matches"
                                THEN InternalSimilarityThreshold ELSE SimilarityThreshold)

\* C24: under any interleaving of callers of _ensure_model_loaded, at most
\* one thread at a time is loading a module's model, nobody is loading a
\* module whose load has succeeded, and a loaded module stays loaded.
C24_SingleFlightLoad ==
    /\ [](\A m \in Modules :
            LET loading == {t \in Requests : /\ loader.thr[t].m = m
                                             /\ loader.thr[t].pc \in {"load_processor", "load_model"}}
            IN  /\ Cardinality(loading) <= 1
                /\ Loaded(loader, m) => loading = {})
    /\ [][\A m \in Modules : Loaded(loader, m) => Loaded(loader', m)]_vars

\* a thread that found the model missing, waited for the lock and now holds
\* it with the model loaded by the other thread meanwhile
C24_SecondCallerFindsModelLoaded ==
    \E t \in Requests :
        /\ loader.thr[t].pc = "recheck"
        /\ Loaded(loader, loader.thr[t].m)

\* C22: every delivery attempt of the send-email operation, sent or failed,
\* adds exactly one row to email_logs with the recipient, the time and the
\* outcome, and the report's email_status is the outcome of that attempt.
C22_AttemptLogged ==
    [][(ret'.op = "send_dmca_report_email" /\ ret'.detail \notin {"not_configured", "not_found"}) =>
          /\ Len(email_logs') = Len(email_logs) + 1
          /\ SubSeq(email_logs', 1, Len(email_logs)) = email_logs
          /\ LET log == email_logs'[Len(email_logs')]
             IN  /\ log.status \in {"sent", "failed"}
                 /\ log.recipient_email \in Recipients
                 /\ log.sent_at = clock
                 /\ reports'[log.report_id].email_status = log.status]_vars

\* C23: a report's status stays within pending, sent, delivered, failed, a
\* new report is pending, and no step moves a status backwards on the path
\* pending -> sent -> (delivered | failed).
C23_StatusMovesForward ==
    [][LET Rank(status) == IF status = "pending" THEN 0 ELSE IF status = "sent" THEN 1 ELSE 2
       IN
       /\ \A i \in Idx(reports') :
             reports'[i].status \in {"pending", "sent", "delivered", "failed"}
       /\ \A i \in Idx(reports') \ Idx(reports) : reports'[i].status = "pending"
       /\ \A i \in Idx(reports) :
             /\ i \in Idx(reports')
             /\ Rank(reports[i].status) <= Rank(reports'[i].status)]_vars

\* C25: every match of a user's image is in exactly one of the two lists: in
\* the pending list of its image, and not in the review history, while its
\* status is pending; in the review history, and not in the pending list,
\* once it is reviewed.
C25_ListedInOneView ==
    \A i \in Idx(matches) :
        LET src == matches[i].source_image_id
            u == images[src].user_id
            pending == i \in get_matches(images, matches, src, u).ids
            history == i \in get_match_history(images, matches, u, "none").ids
        IN  /\ pending # history
            /\ pending <=> matches[i].status = "pending"

\* C26: in every state the two representations of a match's review state
\* agree: user_confirmed is NULL exactly when status is pending, true exactly
\* when it is confirmed, false exactly when it is declined, and reviewed_at is
\* set exactly when status is not pending.
C26_ReviewStateAgrees ==
    \A i \in Idx(matches) :
        /\ matches[i].user_confirmed = "NULL" <=> matches[i].status = "pending"
        /\ matches[i].user_confirmed = "TRUE" <=> matches[i].status = "confirmed"
        /\ matches[i].user_confirmed = "FALSE" <=> matches[i].status = "declined"
        /\ matches[i].reviewed_at # 0 <=> matches[i].status # "pending"

C28_ReturnedImageIsStored ==
    /\ (ret.op = "run_pipeline" /\ ret.image_id # NoneId) => ret.image_id \in Idx(images)
    /\ \A r \in Requests : proc[r].pc = "pipeline" => proc[r].image_id \in Idx(images)

\* C29: when the loop of run_pipeline has gone through its candidates, each
\* was counted once (successful + failed = total_found), the returned list
\* has one entry per successful candidate, and every ip_matches row the run
\* wrote is in that list.
C29_EveryCandidateCountedOnce ==
    [][(proc[1].pc = "pipeline" /\ ret'.op = "run_pipeline") =>
          /\ ret'.successful + ret'.failed = ret'.total_found
          /\ Len(ret'.matches) = ret'.successful
          /\ \A i \in Idx(matches') :
                (matches'[i].source_image_id = ret'.image_id
                    /\ matches'[i].scraped_data # NoScrapedData) =>
                        \E k \in Idx(ret'.matches) : ret'.matches[k].id = i]_vars

\* C30: save_internal_matches adds one row for every internal match that is
\* not persisted yet for the source image; a protected asset and a crawled
\* image with the same numeric id are two matches, so a call that starts with
\* neither persisted and is handed both adds two rows.
C30_AssetAndImageBothSaved ==
    [][(proc[1].pc = "save" /\ proc[1].pending = <<>> /\ proc[1].todo >= 2) =>
          \A id \in InternalIds, s \in InternalScores :
              PairCount(matches, proc[1].input_image_id, id) = 0 =>
                  LET first == InternalStep(matches, <<>>, proc[1].autoflush,
                                            proc[1].input_image_id,
                                            InternalMatch("ip_asset", id, s))
                      second == InternalStep(matches, first, proc[1].autoflush,
                                             proc[1].input_image_id,
                                             InternalMatch("image", id, s))
                  IN  Len(second) = 2]_vars

====
